---- MODULE Spec2Model ----
(***************************************************************************)
(* semacro: the macro expansion engine of src/semacro.py.                  *)
(*                                                                         *)
(* Text is modelled character by character: a Python str is a TLA+ string, *)
(* positions are Python's 0-based offsets, and every regular expression of *)
(* the source is an operator that scans the characters the way the regex   *)
(* engine does (leftmost match, greedy quantifiers).  The text alphabet    *)
(* is ASCII with LF line ends.                                             *)
(***************************************************************************)
EXTENDS Integers, Sequences, FiniteSets, TLC

VARIABLES
    index,      \* name -> MacroDef (kind, body): build_index's result
    pc,         \* position of the running command
    name,       \* expand_macro: root macro name
    args,       \* expand_macro / substitute_args: argument list
    max_depth,  \* expand_macro: max_depth
    stack,      \* expand_macro: the activation records, innermost last
    tree,       \* the ExpansionNode returned by the outermost expand_macro
    rules,      \* collect_leaf_rules(tree)
    merged,     \* _merge_rules(all_rules)
    text,       \* input text of substitute_args / _flatten_braces / parse_file /
                \* _resolve_defines_in_text
    result,     \* their return value
    query,      \* cmd_which: source, target, third, obj_class
    cands,      \* cmd_which: candidates not yet tried
    matches,    \* cmd_which: matches found so far
    trials      \* cmd_which: trial argument lists not yet tried

vars == <<index, pc, name, args, max_depth, stack, tree, rules, merged,
          text, result, query, cands, matches, trials>>

-----------------------------------------------------------------------------
(* Characters and Python str primitives *)

Lower == {"a","b","c","d","e","f","g","h","i","j","k","l","m",
          "n","o","p","q","r","s","t","u","v","w","x","y","z"}
Upper == {"A","B","C","D","E","F","G","H","I","J","K","L","M",
          "N","O","P","Q","R","S","T","U","V","W","X","Y","Z"}
Digits == {"0","1","2","3","4","5","6","7","8","9"}

\* the opening quote of the macro processor (a string literal holding a backtick
\* has to close it with an apostrophe, so the lone character is cut out of a pair)
Backtick == SubSeq("`'", 1, 1)

\* regex \d, \w, \s on the ASCII alphabet
IsDigit(c) == c \in Digits
WordChars == Lower \cup Upper \cup Digits \cup {"_"}
IsWord(c) == c \in WordChars
IsSpace(c) == c \in {" ", "\t", "\n", "\r", "\f"}

\* s[i]  (0-based; "" past the end, where Python code never looks)
Ch(s, i) == IF 0 <= i /\ i < Len(s) THEN SubSeq(s, i + 1, i + 1) ELSE ""

\* s[i:j] for 0 <= i, j
Slice(s, i, j) ==
    LET hi == IF j > Len(s) THEN Len(s) ELSE j
    IN  IF i >= hi THEN "" ELSE SubSeq(s, i + 1, hi)

\* s[i:]
From(s, i) == Slice(s, i, Len(s))

\* s.startswith(p, i)
StartsAt(s, p, i) == i + Len(p) <= Len(s) /\ Slice(s, i, i + Len(p)) = p

StartsWith(s, p) == StartsAt(s, p, 0)

EndsWith(s, p) == Len(p) <= Len(s) /\ From(s, Len(s) - Len(p)) = p

\* the least k in lo..hi with Ok(k), or -1: where a left-to-right scan first succeeds
First(lo, hi, Ok(_)) ==
    IF \E k \in lo..hi : Ok(k)
    THEN CHOOSE k \in lo..hi : Ok(k) /\ \A j \in lo..(k - 1) : ~Ok(j)
    ELSE -1

\* s.find(p, i): the first offset >= i where p occurs, or -1
Find(s, p, i) == First(i, Len(s) - Len(p), LAMBDA k : StartsAt(s, p, k))

\* p in s
Contains(s, p) == Find(s, p, 0) # -1

\* s.rfind(p, 0, j) for a one-character p: the last offset < j holding p, or -1
RFind(s, p, j) ==
    IF \E k \in 0..(j - 1) : Ch(s, k) = p
    THEN CHOOSE k \in 0..(j - 1) : Ch(s, k) = p /\ \A q \in (k + 1)..(j - 1) : Ch(s, q) # p
    ELSE -1

RECURSIVE SpaceEnd(_, _)
\* end of the maximal run of whitespace starting at i  (regex \s*)
SpaceEnd(s, i) == IF i < Len(s) /\ IsSpace(Ch(s, i)) THEN SpaceEnd(s, i + 1) ELSE i

RECURSIVE NonSpaceEnd(_, _)
\* end of the maximal run of non-whitespace starting at i  (regex \S*)
NonSpaceEnd(s, i) ==
    IF i < Len(s) /\ ~IsSpace(Ch(s, i)) THEN NonSpaceEnd(s, i + 1) ELSE i

RECURSIVE WordEnd(_, _)
\* end of the maximal run of word characters starting at i  (regex \w*)
WordEnd(s, i) == IF i < Len(s) /\ IsWord(Ch(s, i)) THEN WordEnd(s, i + 1) ELSE i

RECURSIVE DigitsEnd(_, _)
\* end of the maximal run of digits starting at i  (regex \d*)
DigitsEnd(s, i) == IF i < Len(s) /\ IsDigit(Ch(s, i)) THEN DigitsEnd(s, i + 1) ELSE i

RECURSIVE SpaceStart(_, _)
\* start of the maximal run of whitespace ending at j
SpaceStart(s, j) == IF j > 0 /\ IsSpace(Ch(s, j - 1)) THEN SpaceStart(s, j - 1) ELSE j

\* s.strip()
Strip(s) ==
    LET a == SpaceEnd(s, 0)
    IN  IF a = Len(s) THEN "" ELSE Slice(s, a, SpaceStart(s, Len(s)))

RECURSIVE SplitOn(_, _)
\* s.split(sep) for a one-character sep
SplitOn(s, sep) ==
    LET k == Find(s, sep, 0)
    IN  IF k = -1 THEN <<s>> ELSE <<Slice(s, 0, k)>> \o SplitOn(From(s, k + 1), sep)

\* s.splitlines() on text with LF line ends
SplitLines(s) ==
    IF s = "" THEN <<>>
    ELSE LET parts == SplitOn(s, "\n")
         IN  IF parts[Len(parts)] = "" THEN SubSeq(parts, 1, Len(parts) - 1) ELSE parts

RECURSIVE SplitWs(_)
\* s.split(): the maximal runs of non-whitespace
SplitWs(s) ==
    LET a == SpaceEnd(s, 0)
        b == NonSpaceEnd(s, a)
    IN  IF a = Len(s) THEN <<>> ELSE <<Slice(s, a, b)>> \o SplitWs(From(s, b))

RECURSIVE Join(_, _)
\* sep.join(parts)
Join(parts, sep) ==
    IF parts = <<>> THEN ""
    ELSE IF Len(parts) = 1 THEN parts[1]
    ELSE parts[1] \o sep \o Join(Tail(parts), sep)

RECURSIVE Replace(_, _, _)
\* s.replace(old, new) for a non-empty old
Replace(s, old, new) ==
    LET k == Find(s, old, 0)
    IN  IF k = -1 THEN s
        ELSE Slice(s, 0, k) \o new \o Replace(From(s, k + Len(old)), old, new)

\* [f(x) for x in seq]
Map(f(_), seq) == [i \in 1..Len(seq) |-> f(seq[i])]

RECURSIVE ToInt(_)
\* int(digits)
ToInt(ds) ==
    IF ds = "" THEN 0
    ELSE LET d == Ch(ds, Len(ds) - 1)
             v == CHOOSE n \in 0..9 : Ch("0123456789", n) = d
         IN  10 * ToInt(Slice(ds, 0, Len(ds) - 1)) + v

\* regex \b at offset i: exactly one side of i is a word character
WordBoundary(s, i) == IsWord(Ch(s, i - 1)) # IsWord(Ch(s, i))

-----------------------------------------------------------------------------
(* substitute_args *)

\* the callback of re.sub: group 1 is the digit run after "$"
_replacer(digits, arglist) ==
    LET idx == ToInt(digits)
    IN  IF idx = 0 THEN "$" \o digits
        ELSE IF 1 <= idx /\ idx <= Len(arglist) THEN arglist[idx]
        ELSE ""

\* \$(\d+) matched at offset i: the match end, or -1
PositionalAt(s, i) ==
    IF Ch(s, i) = "$" /\ DigitsEnd(s, i + 1) > i + 1 THEN DigitsEnd(s, i + 1) ELSE -1

RECURSIVE SubPositional(_, _, _)
\* re.sub(r'\$(\d+)', _replacer, body), scanning from offset i
SubPositional(body, arglist, i) ==
    LET k == First(i, Len(body) - 1, LAMBDA p : PositionalAt(body, p) # -1)
        e == PositionalAt(body, k)
    IN  IF k = -1 THEN From(body, i)
        ELSE Slice(body, i, k) \o _replacer(Slice(body, k + 1, e), arglist)
                 \o SubPositional(body, arglist, e)

\* the join of line 190 as it would be with a space after each comma
SubStarSpaced(s, arglist) == Replace(s, "$*", Join(arglist, ", "))

\* the second pass: result.replace("$*", ",".join(args))
SubStar(s, arglist) == Replace(s, "$*", Join(arglist, ","))

substitute_args(body, arglist) == SubStar(SubPositional(body, arglist, 0), arglist)

-----------------------------------------------------------------------------
(* _flatten_braces *)

RECURSIVE PlainEnd(_, _)
\* end of the maximal run of [^{}] starting at i
PlainEnd(s, i) ==
    IF i < Len(s) /\ Ch(s, i) \notin {"{", "}"} THEN PlainEnd(s, i + 1) ELSE i

\* _NESTED_BRACES matched at offset i: the three groups and the match end, or ok = FALSE
NestedAt(s, i) ==
    LET a == PlainEnd(s, i + 1)
        b == PlainEnd(s, a + 1)
        c == PlainEnd(s, b + 1)
    IN  IF Ch(s, i) = "{" /\ Ch(s, a) = "{" /\ Ch(s, b) = "}" /\ Ch(s, c) = "}"
        THEN [ok |-> TRUE, g1 |-> Slice(s, i + 1, a), g2 |-> Slice(s, a + 1, b),
              g3 |-> Slice(s, b + 1, c), end |-> c + 1]
        ELSE [ok |-> FALSE, g1 |-> "", g2 |-> "", g3 |-> "", end |-> i]

\* _NESTED_BRACES.search(text)
NestedSearch(s) == \E i \in 0..(Len(s) - 1) : NestedAt(s, i).ok

RECURSIVE NestedSub(_, _)
\* _NESTED_BRACES.sub(r'{ \1 \2 \3 }', text), scanning from offset i
NestedSub(s, i) ==
    LET k == First(i, Len(s) - 1, LAMBDA p : NestedAt(s, p).ok)
        m == NestedAt(s, k)
    IN  IF k = -1 THEN From(s, i)
        ELSE Slice(s, i, k) \o "{ " \o m.g1 \o " " \o m.g2 \o " " \o m.g3 \o " }"
                 \o NestedSub(s, m.end)

RECURSIVE FlattenLoop(_)
\* while _NESTED_BRACES.search(text): text = _NESTED_BRACES.sub(...)
FlattenLoop(s) == IF NestedSearch(s) THEN FlattenLoop(NestedSub(s, 0)) ELSE s

RECURSIVE SqueezeSpace(_, _)
\* re.sub(r'\s{2,}', ' ', text), scanning from offset i
SqueezeSpace(s, i) ==
    LET k == First(i, Len(s) - 2, LAMBDA p : IsSpace(Ch(s, p)) /\ IsSpace(Ch(s, p + 1)))
    IN  IF k = -1 THEN From(s, i)
        ELSE Slice(s, i, k) \o " " \o SqueezeSpace(s, SpaceEnd(s, k))

_flatten_braces(s) == SqueezeSpace(FlattenLoop(s), 0)

-----------------------------------------------------------------------------
(* find_calls_in_body *)

skip_names ==
    {"allow", "dontaudit", "auditallow", "neverallow",
     "type_transition", "type_change", "type_member",
     "role_transition", "range_transition",
     "gen_require", "optional_policy", "tunable_policy",
     "require", "type", "role", "attribute", "bool",
     "ifdef", "ifndef", "refpolicywarn"}

\* _BODY_CALL = \b(\w+)\(([^)]*)\) matched at offset i
BodyCallAt(s, i) ==
    LET e == WordEnd(s, i)
        close == Find(s, ")", e + 1)
    IN  IF WordBoundary(s, i) /\ e > i /\ Ch(s, e) = "(" /\ close # -1
        THEN [ok |-> TRUE, g1 |-> Slice(s, i, e), g2 |-> Slice(s, e + 1, close),
              start |-> i, end |-> close + 1]
        ELSE [ok |-> FALSE, g1 |-> "", g2 |-> "", start |-> i, end |-> i]

\* the loop body of find_calls_in_body for one match m: the calls it appends
CallOfMatch(body, m) ==
    LET line_start == RFind(body, "\n", m.start) + 1
        line_prefix == Strip(Slice(body, line_start, m.start))
        arglist == IF Strip(m.g2) # "" THEN Map(Strip, SplitOn(m.g2, ",")) ELSE <<>>
    IN  IF m.g1 \in skip_names THEN <<>>
        ELSE IF StartsWith(line_prefix, "#") THEN <<>>
        ELSE <<[name |-> m.g1, args |-> arglist, start |-> m.start, end |-> m.end]>>

RECURSIVE FindCallsFrom(_, _)
\* _BODY_CALL.finditer(body) from offset i, filtered
FindCallsFrom(body, i) ==
    LET k == First(i, Len(body) - 1, LAMBDA p : BodyCallAt(body, p).ok)
        m == BodyCallAt(body, k)
    IN  IF k = -1 THEN <<>>
        ELSE CallOfMatch(body, m) \o FindCallsFrom(body, m.end)

find_calls_in_body(body) == FindCallsFrom(body, 0)

-----------------------------------------------------------------------------
(* _strip_gen_require *)

\* _GEN_REQUIRE_BLOCK = \bgen_require\(\s*`[^']*'\s*\)\s*\n? matched at offset i:
\* the match end, or -1
GenRequireAt(s, i) ==
    LET a == SpaceEnd(s, i + Len("gen_require("))
        quote == Find(s, "'", a + 1)
        b == SpaceEnd(s, quote + 1)
    IN  IF WordBoundary(s, i) /\ StartsAt(s, "gen_require(", i)
           /\ Ch(s, a) = Backtick /\ quote # -1 /\ Ch(s, b) = ")"
        THEN SpaceEnd(s, b + 1)
        ELSE -1

RECURSIVE StripGenRequireFrom(_, _)
\* _GEN_REQUIRE_BLOCK.sub("", body), scanning from offset i
StripGenRequireFrom(s, i) ==
    LET k == First(i, Len(s) - 1, LAMBDA p : GenRequireAt(s, p) # -1)
    IN  IF k = -1 THEN From(s, i)
        ELSE Slice(s, i, k) \o StripGenRequireFrom(s, GenRequireAt(s, k))

_strip_gen_require(body) == StripGenRequireFrom(body, 0)

-----------------------------------------------------------------------------
(* _resolve_defines_in_text *)

ResolveIterations == 5

\* the test of line 270 on a word
IsSimpleDefine(idx, word) ==
    /\ word \in DOMAIN idx
    /\ idx[word].kind = "define"
    /\ ~Contains(idx[word].body, "$")

\* _WORD_TOKEN = \b([a-zA-Z_]\w+)\b matched at offset i: the match end, or -1
WordTokenAt(s, i) ==
    IF /\ WordBoundary(s, i)
       /\ Ch(s, i) \in Lower \cup Upper \cup {"_"}
       /\ WordEnd(s, i) >= i + 2
    THEN WordEnd(s, i)
    ELSE -1

\* the loop of lines 267-273: the first match of _WORD_TOKEN.finditer(text) whose
\* word passes the test, as its span, or ok = FALSE
FirstDefine(s, idx) ==
    LET k == First(0, Len(s) - 1,
                   LAMBDA p : /\ WordTokenAt(s, p) # -1
                              /\ IsSimpleDefine(idx, Slice(s, p, WordTokenAt(s, p))))
    IN  IF k = -1 THEN [ok |-> FALSE, start |-> 0, end |-> 0]
        ELSE [ok |-> TRUE, start |-> k, end |-> WordTokenAt(s, k)]

RECURSIVE ResolveLoop(_, _, _)
\* the for loop of _resolve_defines_in_text with n iterations left
ResolveLoop(s, idx, n) ==
    IF n = 0 THEN s
    ELSE LET m == FirstDefine(s, idx)
         IN  IF m.ok
             THEN ResolveLoop(Slice(s, 0, m.start) \o Strip(idx[Slice(s, m.start, m.end)].body)
                                  \o From(s, m.end), idx, n - 1)
             ELSE s

_resolve_defines_in_text(s, idx) == _flatten_braces(ResolveLoop(s, idx, ResolveIterations))

-----------------------------------------------------------------------------
(* ExpansionNode and the leaf lines of expand_macro *)

\* the node as it would be built if is_leaf were never passed on
ExpansionNodeNeverLeaf(t, kids, leaf) == [text |-> t, children |-> kids, is_leaf |-> FALSE]

ExpansionNode(t, kids, leaf) == [text |-> t, children |-> kids, is_leaf |-> leaf]

MaxDepthText == "... (max depth reached)"

\* call_str as it would be with the parentheses always written
CallStrAlways(n, arglist) == n \o "(" \o Join(arglist, ", ") \o ")"

\* call_str of expand_macro
CallStr(n, arglist) ==
    IF arglist # <<>> THEN n \o "(" \o Join(arglist, ", ") \o ")" ELSE n

\* the text of an unresolved nested call (line 332)
ChildCallStr(n, arglist) == n \o "(" \o Join(arglist, ", ") \o ")"

RuleKeywords ==
    <<"allow", "dontaudit", "auditallow", "neverallow", "type_transition",
      "type_change", "type_member", "role_transition">>

\* re.match(r"(allow|...|role_transition)\s", line)
StartsWithRuleKeyword(line) ==
    \E k \in 1..Len(RuleKeywords) :
        StartsWith(line, RuleKeywords[k]) /\ IsSpace(Ch(line, Len(RuleKeywords[k])))

RECURSIVE ConcatAllBackwards(_)
\* the members of seqs put together last first
ConcatAllBackwards(seqs) ==
    IF seqs = <<>> THEN <<>> ELSE ConcatAllBackwards(Tail(seqs)) \o Head(seqs)

RECURSIVE ConcatAll(_)
ConcatAll(seqs) == IF seqs = <<>> THEN <<>> ELSE Head(seqs) \o ConcatAll(Tail(seqs))

\* one line of the body with no calls (lines 306-309): the leaves it appends
PureLeaf(rawline, idx) ==
    LET line == Strip(rawline)
    IN  IF line # "" /\ ~StartsWith(line, "#")
        THEN <<ExpansionNode(_resolve_defines_in_text(line, idx), <<>>, TRUE)>>
        ELSE <<>>

\* the loop of lines 305-309 over body.strip().splitlines()
PureLeaves(body, idx) ==
    LET lines == SplitLines(Strip(body))
    IN  ConcatAll([i \in 1..Len(lines) |-> PureLeaf(lines[i], idx)])

\* one line of _add_leaf_lines: the leaves it appends
AdmittedLeaf(rawline, idx) ==
    LET line == Strip(rawline)
    IN  IF line = "" \/ StartsWith(line, "#") THEN <<>>
        ELSE IF EndsWith(line, ";") \/ StartsWithRuleKeyword(line)
        THEN <<ExpansionNode(_resolve_defines_in_text(line, idx), <<>>, TRUE)>>
        ELSE <<>>

_add_leaf_lines(segment, idx) ==
    LET lines == SplitLines(segment)
    IN  ConcatAll([i \in 1..Len(lines) |-> AdmittedLeaf(lines[i], idx)])

\* lines 299-301: the body after substitution and gen_require stripping
ExpandedBody(idx, n, arglist) ==
    _strip_gen_require(IF arglist # <<>> THEN substitute_args(idx[n].body, arglist)
                       ELSE idx[n].body)

-----------------------------------------------------------------------------
(* _AV_RULE, collect_leaf_rules, _merge_rules *)

AvKinds == <<"allow", "dontaudit", "auditallow", "neverallow">>

NoAv == [ok |-> FALSE, rule_type |-> "", source |-> "", target_class |-> "", perms_str |-> ""]

\* the rest of _AV_RULE after the kind k: \s+(\S+)\s+(\S+:\S+)\s+\{([^}]+)\}\s*;$
AvRest(rule, k) ==
    LET a == SpaceEnd(rule, Len(k))
        b == NonSpaceEnd(rule, a)
        c == SpaceEnd(rule, b)
        d == NonSpaceEnd(rule, c)
        e == SpaceEnd(rule, d)
        f == Find(rule, "}", e + 1)
        g == SpaceEnd(rule, f + 1)
    IN  IF /\ a > Len(k) /\ b > a /\ c > b
           /\ \E colon \in (c + 1)..(d - 2) : Ch(rule, colon) = ":"
           /\ e > d /\ Ch(rule, e) = "{"
           /\ f # -1 /\ f > e + 1
           /\ Ch(rule, g) = ";"
           /\ (g + 1 = Len(rule) \/ (g + 2 = Len(rule) /\ Ch(rule, g + 1) = "\n"))
        THEN [ok |-> TRUE, rule_type |-> k, source |-> Slice(rule, a, b),
              target_class |-> Slice(rule, c, d), perms_str |-> Slice(rule, e + 1, f)]
        ELSE NoAv

\* _AV_RULE.match(rule)
AvMatch(rule) ==
    IF \E k \in 1..Len(AvKinds) : StartsWith(rule, AvKinds[k])
    THEN AvRest(rule, AvKinds[CHOOSE k \in 1..Len(AvKinds) : StartsWith(rule, AvKinds[k])])
    ELSE NoAv

RECURSIVE DedupeFront(_, _)
\* the ordered keys as they would be if each new key were put first
DedupeFront(xs, acc) ==
    IF xs = <<>> THEN acc
    ELSE DedupeFront(Tail(xs),
                     IF \E i \in 1..Len(acc) : acc[i] = Head(xs) THEN acc ELSE <<Head(xs)>> \o acc)

RECURSIVE Dedupe(_, _)
\* seen.setdefault(x, None) for each x of xs, in order, onto the ordered keys acc
Dedupe(xs, acc) ==
    IF xs = <<>> THEN acc
    ELSE Dedupe(Tail(xs),
                IF \E i \in 1..Len(acc) : acc[i] = Head(xs) THEN acc ELSE Append(acc, Head(xs)))

RECURSIVE Walk(_)
\* _walk: the leaf texts in depth-first order
Walk(n) ==
    (IF n.is_leaf THEN <<n.text>> ELSE <<>>)
        \o ConcatAll([i \in 1..Len(n.children) |-> Walk(n.children[i])])

\* the key of line 390
AvKey(m) == m.rule_type \o " " \o m.source \o " " \o m.target_class

\* position of key in the groups, or 0
GroupOf(groups, key) ==
    IF \E i \in 1..Len(groups) : groups[i].key = key
    THEN CHOOSE i \in 1..Len(groups) : groups[i].key = key
    ELSE 0

\* the iteration as it would be if a later rule of a group replaced the group's
\* permissions instead of adding to them
MergeStepOverwrite(acc, pos, rule) ==
    LET m == AvMatch(rule)
        key == AvKey(m)
        at == GroupOf(acc.groups, key)
        opened == IF at = 0
                  THEN Append(acc.groups, [key |-> key, perms |-> <<>>, order |-> pos])
                  ELSE acc.groups
        gi == IF at = 0 THEN Len(opened) ELSE at
    IN  IF m.ok
        THEN [acc EXCEPT !.groups =
                 [opened EXCEPT ![gi].perms = Dedupe(SplitWs(m.perms_str), <<>>)]]
        ELSE [acc EXCEPT !.other = Append(acc.other, [pos |-> pos, text |-> rule])]

\* one iteration of the loop of lines 386-397 on (pos, rule); acc holds
\* merged_perms with merged_order (groups, in insertion order) and other
MergeStep(acc, pos, rule) ==
    LET m == AvMatch(rule)
        key == AvKey(m)
        at == GroupOf(acc.groups, key)
        opened == IF at = 0
                  THEN Append(acc.groups, [key |-> key, perms |-> <<>>, order |-> pos])
                  ELSE acc.groups
        gi == IF at = 0 THEN Len(opened) ELSE at
    IN  IF m.ok
        THEN [acc EXCEPT !.groups =
                 [opened EXCEPT ![gi].perms = Dedupe(SplitWs(m.perms_str), opened[gi].perms)]]
        ELSE [acc EXCEPT !.other = Append(acc.other, [pos |-> pos, text |-> rule])]

RECURSIVE MergeLoop(_, _, _)
\* for pos, rule in enumerate(seen), from pos on
MergeLoop(seen, pos, acc) ==
    IF pos >= Len(seen) THEN acc
    ELSE MergeLoop(seen, pos + 1, MergeStep(acc, pos, seen[pos + 1]))

\* line 401: the text of a merged group
GroupText(g) == g.key \o " { " \o Join(g.perms, " ") \o " };"

RECURSIVE InsertByPos(_, _)
InsertByPos(sorted, x) ==
    IF sorted = <<>> THEN <<x>>
    ELSE IF x.pos < Head(sorted).pos THEN <<x>> \o sorted
    ELSE <<Head(sorted)>> \o InsertByPos(Tail(sorted), x)

RECURSIVE SortByPos(_)
\* result.sort(key=lambda x: x[0]) (stable)
SortByPos(xs) ==
    IF xs = <<>> THEN <<>>
    ELSE InsertByPos(SortByPos(SubSeq(xs, 1, Len(xs) - 1)), xs[Len(xs)])

\* lines 382-403 (and, word for word, 811-832): merge the deduplicated rules
MergeSeen(seen) ==
    LET acc == MergeLoop(seen, 0, [groups |-> <<>>, other |-> <<>>])
        grouped == [i \in 1..Len(acc.groups) |->
                       [pos |-> acc.groups[i].order, text |-> GroupText(acc.groups[i])]]
        sorted == SortByPos(acc.other \o grouped)
    IN  [i \in 1..Len(sorted) |-> sorted[i].text]

collect_leaf_rules(node) == MergeSeen(Dedupe(Walk(node), <<>>))

_merge_rules(rulelist) == MergeSeen(Dedupe(rulelist, <<>>))

-----------------------------------------------------------------------------
(* The policy the commands run on: build_index's result *)

MacroDef(k, b) == [kind |-> k, body |-> b]

\* Scenario C of the specification: two interfaces calling each other
CyclicPolicy ==
    ("a" :> MacroDef("interface", " b() ")) @@
    ("b" :> MacroDef("interface", " a() "))

\* a policy tree with permission-set defines, interfaces and templates
RefPolicy ==
    ("r_perms" :> MacroDef("define", "{ getattr open read }")) @@
    ("rw_perms" :> MacroDef("define", "{ r_perms write }")) @@
    ("grant" :> MacroDef("define", "allow $1 $2:file r_perms;")) @@
    ("ping" :> MacroDef("interface",
        "\tpong($1)\n\tallow $1 self:file { read };")) @@
    ("pong" :> MacroDef("interface", "\tping($1)\n\tping($1)")) @@
    ("empty" :> MacroDef("interface", "")) @@
    ("comment_only" :> MacroDef("interface", "\t# nothing to grant\n\n")) @@
    ("require_only" :> MacroDef("interface",
        "\tgen_require(`\n\t\ttype log_t;\n\t')\n")) @@
    ("read_log" :> MacroDef("interface",
        "\tgen_require(`\n\t\ttype $1;\n\t')\n\n\tallow $1 log_t:file r_perms;\n\tallow $1 log_t:dir { search };\n\tallow $1 log_t:file { write };")) @@
    ("nested_req" :> MacroDef("interface",
        "\tgen_require(`\n\t\ttype log_t;\n\t\tifdef(`distro',`type x_t;')\n\t')\n\tallow $1 log_t:file { read };")) @@
    ("unbraced" :> MacroDef("interface",
        "\tallow $1 $2:file read;\n\tallow $1 $2:file { write };")) @@
    ("grant_read" :> MacroDef("interface",
        " allow $1 $2:file { read open getattr }; ")) @@
    ("domain_tmpl" :> MacroDef("template",
        "\tallow $1 self:dir { search };\n\tread_log($1)\n\t# ping($1)\n\tmissing($1, x)\n\ttype_transition $1 tmp_t:file $2;\n\toptional_policy(`\n\t\tunbraced($1, $2)\n\t')\n\tgrant_read($1, $2)\n\tallow $1 $2:file rw_perms;")) @@
    ("orphan" :> MacroDef("interface", "\tgone()\n\tgone( )\n\tlost(a,, b)")) @@
    ("self_tmpl" :> MacroDef("template",
        "\tallow $1 self:dir { search };\n\tallow $1 self:fifo_file { read };\n\tgone($1)\n\tallow $1 self:dir { read };\n\n\tallow $1 self:fifo_file { write };"))

\* lines a macro body is written from
LinePool ==
    {"allow $1 t:file { read };",
     "allow $1 t:file { write read };",
     "allow $1 u:file rw_perms;",
     "allow $1 t:file read;",
     "dontaudit $1 t:file { read };",
     "type_transition $1 t:file u;"}

MaxLines == 3

\* the bodies of at most MaxLines lines of the pool
Bodies ==
    {Join(ls, "\n") : ls \in UNION {[1..n -> LinePool] : n \in 0..MaxLines}}

\* RefPolicy with one more interface, written from the pool
WithRules(body) == ("rules" :> MacroDef("interface", body)) @@ RefPolicy

ArgLists == {<<>>, <<"A">>, <<"A", "B">>, <<"a't", "B">>}

MaxDepth == 3

\* the interpreter's limit on nested calls (sys.getrecursionlimit(), 1000 unless
\* changed, and never changed by the program), scaled down with MaxDepth
RecursionLimit == 4

-----------------------------------------------------------------------------
(* expand_macro, one activation record per call *)

\* the activation record of expand_macro(index, n, arglist, depth, max_depth)
Frame(n, arglist, depth) ==
    [name |-> n, args |-> arglist, depth |-> depth, at |-> "enter",
     node |-> ExpansionNode(CallStr(n, arglist), <<>>, FALSE),
     body |-> "", calls |-> <<>>, k |-> 1, last_end |-> 0]

Top == stack[Len(stack)]

SetTop(f) == [stack EXCEPT ![Len(stack)] = f]

\* the test as it would be if it let one more level through
DepthExceededLate(depth, maxd) == depth > maxd + 1

\* line 290
DepthExceeded(depth, maxd) == depth > maxd

\* lines 290-292: past the maximum depth the node gets the sentinel leaf
MaxDepthReached ==
    /\ pc = "expand" /\ stack # <<>> /\ Top.at = "enter"
    /\ DepthExceeded(Top.depth, max_depth)
    /\ stack' = SetTop([Top EXCEPT
           !.node.children = Append(@, ExpansionNode(MaxDepthText, <<>>, TRUE)),
           !.at = "return"])
    /\ UNCHANGED <<index, pc, name, args, max_depth, tree, rules, merged,
                   text, result, query, cands, matches, trials>>

\* lines 294-297: a name the index does not hold
Unresolved ==
    /\ pc = "expand" /\ stack # <<>> /\ Top.at = "enter"
    /\ ~DepthExceeded(Top.depth, max_depth)
    /\ Top.name \notin DOMAIN index
    /\ stack' = SetTop([Top EXCEPT !.node.is_leaf = TRUE, !.at = "return"])
    /\ UNCHANGED <<index, pc, name, args, max_depth, tree, rules, merged,
                   text, result, query, cands, matches, trials>>

\* lines 299-302: the body is substituted and stripped, its calls are found
FindCalls ==
    /\ pc = "expand" /\ stack # <<>> /\ Top.at = "enter"
    /\ ~DepthExceeded(Top.depth, max_depth)
    /\ Top.name \in DOMAIN index
    /\ stack' = SetTop([Top EXCEPT
           !.body = ExpandedBody(index, Top.name, Top.args),
           !.calls = find_calls_in_body(ExpandedBody(index, Top.name, Top.args)),
           !.at = "body"])
    /\ UNCHANGED <<index, pc, name, args, max_depth, tree, rules, merged,
                   text, result, query, cands, matches, trials>>

\* lines 303-310: a body without calls is pure leaves
NoCalls ==
    /\ pc = "expand" /\ stack # <<>> /\ Top.at = "body"
    /\ Top.calls = <<>>
    /\ stack' = SetTop([Top EXCEPT
           !.node.children = @ \o PureLeaves(Top.body, index),
           !.at = "return"])
    /\ UNCHANGED <<index, pc, name, args, max_depth, tree, rules, merged,
                   text, result, query, cands, matches, trials>>

\* lines 303, 323: a body with calls enters the loop over them
BeginCalls ==
    /\ pc = "expand" /\ stack # <<>> /\ Top.at = "body"
    /\ Top.calls # <<>>
    /\ stack' = SetTop([Top EXCEPT !.k = 1, !.last_end = 0, !.at = "loop"])
    /\ UNCHANGED <<index, pc, name, args, max_depth, tree, rules, merged,
                   text, result, query, cands, matches, trials>>

\* lines 325-329: the leaves before the call, then the recursive call
CallResolved ==
    /\ pc = "expand" /\ stack # <<>> /\ Top.at = "loop"
    /\ Top.k <= Len(Top.calls)
    /\ Top.calls[Top.k].name \in DOMAIN index
    /\ Len(stack) < RecursionLimit
    /\ stack' = LET c == Top.calls[Top.k]
                 IN  Append(
                         SetTop([Top EXCEPT
                             !.node.children =
                                 @ \o _add_leaf_lines(
                                          Slice(Top.body, Top.last_end, c.start), index)]),
                         Frame(c.name, c.args, Top.depth + 1))
    /\ UNCHANGED <<index, pc, name, args, max_depth, tree, rules, merged,
                   text, result, query, cands, matches, trials>>

\* line 329 with the interpreter's stack full: the call raises RecursionError,
\* which no frame of expand_macro catches
RecursionError ==
    /\ pc = "expand" /\ stack # <<>> /\ Top.at = "loop"
    /\ Top.k <= Len(Top.calls)
    /\ Top.calls[Top.k].name \in DOMAIN index
    /\ Len(stack) >= RecursionLimit
    /\ stack' = <<>>
    /\ pc' = "raised"
    /\ UNCHANGED <<index, name, args, max_depth, tree, rules, merged,
                   text, result, query, cands, matches, trials>>

\* lines 325-335: the leaves before the call, then the unresolved call as a leaf
CallUnresolved ==
    /\ pc = "expand" /\ stack # <<>> /\ Top.at = "loop"
    /\ Top.k <= Len(Top.calls)
    /\ Top.calls[Top.k].name \notin DOMAIN index
    /\ stack' = LET c == Top.calls[Top.k]
                 IN  SetTop([Top EXCEPT
                         !.node.children =
                             (@ \o _add_leaf_lines(
                                       Slice(Top.body, Top.last_end, c.start), index))
                                \o <<ExpansionNode(ChildCallStr(c.name, c.args), <<>>, TRUE)>>,
                         !.last_end = c.end,
                         !.k = @ + 1])
    /\ UNCHANGED <<index, pc, name, args, max_depth, tree, rules, merged,
                   text, result, query, cands, matches, trials>>

\* line 337: the leaves after the last call
EndCalls ==
    /\ pc = "expand" /\ stack # <<>> /\ Top.at = "loop"
    /\ Top.k > Len(Top.calls)
    /\ stack' = SetTop([Top EXCEPT
           !.node.children = @ \o _add_leaf_lines(From(Top.body, Top.last_end), index),
           !.at = "return"])
    /\ UNCHANGED <<index, pc, name, args, max_depth, tree, rules, merged,
                   text, result, query, cands, matches, trials>>

\* return node, into the caller's loop (lines 329, 335)
ReturnToCaller ==
    /\ pc = "expand" /\ Len(stack) > 1 /\ Top.at = "return"
    /\ stack' = LET rest == SubSeq(stack, 1, Len(stack) - 1)
                     caller == rest[Len(rest)]
                 IN  [rest EXCEPT ![Len(rest)] = [caller EXCEPT
                         !.node.children = Append(@, Top.node),
                         !.last_end = caller.calls[caller.k].end,
                         !.k = @ + 1]]
    /\ UNCHANGED <<index, pc, name, args, max_depth, tree, rules, merged,
                   text, result, query, cands, matches, trials>>

\* return node of the outermost call: the tree
ReturnTree ==
    /\ pc = "expand" /\ Len(stack) = 1 /\ Top.at = "return"
    /\ tree' = Top.node
    /\ stack' = <<>>
    /\ pc' = "expanded"
    /\ UNCHANGED <<index, name, args, max_depth, rules, merged,
                   text, result, query, cands, matches, trials>>

-----------------------------------------------------------------------------
(* The rules of one call: expand_macro, collect_leaf_rules, _merge_rules *)

NoTree == ExpansionNode("", <<>>, FALSE)

\* a call of any macro of a policy, or of a name it does not define
InitNamed ==
    /\ index \in {CyclicPolicy, RefPolicy}
    /\ name \in DOMAIN index \cup {"nope"}
    /\ args \in ArgLists
    /\ max_depth \in 0..MaxDepth

\* a call of an interface written from the pool of lines
InitRules ==
    /\ index \in {WithRules(b) : b \in Bodies}
    /\ name = "rules"
    /\ args \in {<<>>, <<"A">>}
    /\ max_depth = MaxDepth

\* no text handed to a text function
NoText == text = "" /\ result = ""

NoQuery ==
    [source |-> "", target |-> "", third |-> "", obj_class |-> "",
     transition |-> FALSE, trans_name |-> ""]

\* cmd_which not running
NoWhich == query = NoQuery /\ cands = <<>> /\ matches = {} /\ trials = <<>>

Init ==
    /\ (InitNamed \/ InitRules)
    /\ pc = "start"
    /\ stack = <<>>
    /\ tree = NoTree
    /\ rules = <<>> /\ merged = <<>>
    /\ NoText
    /\ NoWhich

\* expand_macro(index, name, args, max_depth=max_depth), depth 0 (lines 445, 786)
ExpandCall ==
    /\ pc = "start"
    /\ stack' = <<Frame(name, args, 0)>>
    /\ pc' = "expand"
    /\ UNCHANGED <<index, name, args, max_depth, tree, rules, merged,
                   text, result, query, cands, matches, trials>>

\* collect_leaf_rules(tree) (lines 446, 791)
Collect ==
    /\ pc = "expanded"
    /\ rules' = collect_leaf_rules(tree)
    /\ pc' = "collected"
    /\ UNCHANGED <<index, name, args, max_depth, stack, tree, merged,
                   text, result, query, cands, matches, trials>>

\* cmd_expand_file on a file of one call: _merge_rules(all_rules) (line 799)
Merge ==
    /\ pc = "collected"
    /\ merged' = _merge_rules(rules)
    /\ pc' = "done"
    /\ UNCHANGED <<index, name, args, max_depth, stack, tree, rules,
                   text, result, query, cands, matches, trials>>

Next ==
    \/ ExpandCall
    \/ MaxDepthReached
    \/ Unresolved
    \/ FindCalls
    \/ NoCalls
    \/ BeginCalls
    \/ CallResolved
    \/ RecursionError
    \/ CallUnresolved
    \/ EndCalls
    \/ ReturnToCaller
    \/ ReturnTree
    \/ Collect
    \/ Merge

Spec == Init /\ [][Next]_vars

-----------------------------------------------------------------------------
(* expand_macro as a function of its arguments *)

Sentinel == ExpansionNode(MaxDepthText, <<>>, TRUE)

RECURSIVE expand_macro(_, _, _, _, _)
\* the node expand_macro(idx, n, arglist, depth, maxd) returns (lines 287-339)
expand_macro(idx, n, arglist, depth, maxd) ==
    LET node == ExpansionNode(CallStr(n, arglist), <<>>, FALSE)
        body == ExpandedBody(idx, n, arglist)
        calls == find_calls_in_body(body)
        last_end(k) == IF k = 1 THEN 0 ELSE calls[k - 1].end
        child(k) ==
            IF calls[k].name \in DOMAIN idx
            THEN expand_macro(idx, calls[k].name, calls[k].args, depth + 1, maxd)
            ELSE ExpansionNode(ChildCallStr(calls[k].name, calls[k].args), <<>>, TRUE)
    IN  IF DepthExceeded(depth, maxd) THEN [node EXCEPT !.children = <<Sentinel>>]
        ELSE IF n \notin DOMAIN idx THEN [node EXCEPT !.is_leaf = TRUE]
        ELSE IF calls = <<>> THEN [node EXCEPT !.children = PureLeaves(body, idx)]
        ELSE [node EXCEPT !.children =
                 ConcatAll([k \in 1..Len(calls) |->
                     _add_leaf_lines(Slice(body, last_end(k), calls[k].start), idx)
                         \o <<child(k)>>])
                 \o _add_leaf_lines(From(body, calls[Len(calls)].end), idx)]

-----------------------------------------------------------------------------
(* cmd_which without --transition *)

\* max_depth of the trial expansions
WhichTrialDepth == 5

\* a macro of one rule, its target a parameter (Scenario F of the specification)
GrantPolicy ==
    "grant_read" :> MacroDef("interface", " allow $1 $2:file { read open getattr }; ")

\* interfaces that create files, grant nothing, or take no or four arguments
WhichPolicy ==
    ("pid_filetrans" :> MacroDef("interface", "\ttype_transition $1 run_t:$3 $2;")) @@
    ("tmp_filetrans" :> MacroDef("interface",
        "\tallow $1 tmp_t:dir { search };\n\ttype_transition $1 $2:file $3;")) @@
    ("named_filetrans" :> MacroDef("interface",
        "\ttype_transition $1 tmp_t:file $2 \"pid\";")) @@
    ("quiet_read" :> MacroDef("interface", "\tdontaudit $1 $2:file { read };")) @@
    ("a_read_log" :> MacroDef("interface", "\tallow A log_t:file { read };")) @@
    ("grant4" :> MacroDef("interface", "\tallow $1 $2:file { $3 $4 };"))

\* index.items(): the names in the order build_index inserted them, which is
\* the order the policy's definitions are written in
Keys(idx) ==
    IF idx = GrantPolicy THEN <<"grant_read">>
    ELSE IF idx = WhichPolicy
    THEN <<"pid_filetrans", "tmp_filetrans", "named_filetrans", "quiet_read",
           "a_read_log", "grant4">>
    ELSE <<"r_perms", "rw_perms", "grant", "ping", "pong", "empty", "comment_only",
           "require_only", "read_log", "nested_req", "unbraced", "grant_read",
           "domain_tmpl", "orphan", "self_tmpl">>

\* lines 638-640
SearchTerms(q) == IF q.transition THEN {q.target, q.third} ELSE {q.target}

\* lines 637-645: the macros a search term occurs in
Candidates(idx, q) ==
    SelectSeq(Keys(idx),
              LAMBDA m : /\ ~(idx[m].kind = "define" /\ ~Contains(idx[m].body, "$"))
                         /\ \E term \in SearchTerms(q) :
                                Contains(idx[m].body, term) \/ Contains(m, term))

\* _macro_arity: the highest N of a $N in the body, 0 without one
_macro_arity(body) ==
    LET starts == {k \in 0..(Len(body) - 1) : PositionalAt(body, k) # -1}
        found == {ToInt(Slice(body, k + 1, PositionalAt(body, k))) : k \in starts}
    IN  CHOOSE m \in found \cup {0} : \A x \in found \cup {0} : x <= m

\* lines 655-662: the one trial argument list of the access-vector mode
TrialArgs(q, arity) ==
    LET given == <<q.source>>
                     \o (IF arity >= 2 THEN <<q.target>> ELSE <<>>)
                     \o (IF arity >= 3 THEN <<q.third>> ELSE <<>>)
    IN  given \o [i \in 1..(IF arity > Len(given) THEN arity - Len(given) ELSE 0) |-> ""]

_CLASS_GUESSES == <<"file", "dir", "sock_file", "lnk_file">>

\* _build_transition_trials._pad
_pad(arglist, arity) ==
    arglist \o [i \in 1..(IF arity > Len(arglist) THEN arity - Len(arglist) ELSE 0) |-> ""]

_build_transition_trials(source, parent, new_type, arity) ==
    IF arity <= 1 THEN <<_pad(<<source>>, arity)>>
    ELSE IF arity = 2
    THEN <<_pad(<<source, new_type>>, arity), _pad(<<source, parent>>, arity)>>
    ELSE IF arity = 3
    THEN [i \in 1..Len(_CLASS_GUESSES) |->
              _pad(<<source, new_type, _CLASS_GUESSES[i]>>, arity)]
             \o <<_pad(<<source, parent, new_type>>, arity)>>
    ELSE ConcatAll([i \in 1..Len(_CLASS_GUESSES) |->
                       <<_pad(<<source, new_type, _CLASS_GUESSES[i]>>, arity),
                         _pad(<<source, parent, new_type, _CLASS_GUESSES[i]>>, arity)>>])
             \o <<_pad(<<source, new_type>>, arity),
                  _pad(<<source, parent, new_type>>, arity)>>

\* lines 652-662: trial_sets
TrialSets(q, arity) ==
    IF q.transition THEN _build_transition_trials(q.source, q.target, q.third, arity)
    ELSE <<TrialArgs(q, arity)>>

NoTt == [ok |-> FALSE, source |-> "", parent |-> "", class |-> "", new |-> "", name |-> ""]

\* (?:\s+"([^"]*)")?\s*;$ matched on s from offset i: ok and group 5
\* (None is the empty string here: both fail the test of line 688 alike)
TtTail(s, i) ==
    LET a == SpaceEnd(s, i)
        q2 == Find(s, "\"", a + 1)
        b == SpaceEnd(s, q2 + 1)
        c == SpaceEnd(s, i)
        AtEnd(k) == Ch(s, k) = ";" /\ (k + 1 = Len(s) \/ (k + 2 = Len(s) /\ Ch(s, k + 1) = "\n"))
    IN  IF a > i /\ Ch(s, a) = "\"" /\ q2 # -1 /\ AtEnd(b)
        THEN [ok |-> TRUE, name |-> Slice(s, a + 1, q2)]
        ELSE [ok |-> AtEnd(c), name |-> ""]

\* _TT_RULE.match(rule)
TtMatch(rule) ==
    LET kw == "type_transition"
        a == SpaceEnd(rule, Len(kw))
        b == NonSpaceEnd(rule, a)
        c == SpaceEnd(rule, b)
        d == NonSpaceEnd(rule, c)
        e == SpaceEnd(rule, d)
        f == NonSpaceEnd(rule, e)
        \* (\S+):(\S+): the first group is greedy, it ends at the last colon
        colons == {k \in (c + 1)..(d - 2) : Ch(rule, k) = ":"}
        colon == CHOOSE k \in colons : \A j \in colons : j <= k
        \* (\S+) before the tail: the longest prefix of the run the tail follows
        ends == {k \in (e + 1)..f : TtTail(rule, k).ok}
        g == CHOOSE k \in ends : \A j \in ends : j <= k
    IN  IF /\ StartsWith(rule, kw)
           /\ a > Len(kw) /\ b > a /\ c > b
           /\ colons # {}
           /\ e > d /\ ends # {}
        THEN [ok |-> TRUE, source |-> Slice(rule, a, b), parent |-> Slice(rule, c, colon),
              class |-> Slice(rule, colon + 1, d), new |-> Slice(rule, e, g),
              name |-> TtTail(rule, g).name]
        ELSE NoTt

\* lines 680-689: the test a rule passes to be a match in transition mode
TtRuleMatches(q, rule) ==
    LET tt == TtMatch(rule)
    IN  /\ tt.ok
        /\ tt.source = q.source /\ tt.parent = q.target /\ tt.new = q.third
        /\ (q.obj_class # "" => tt.class = q.obj_class)
        /\ (q.trans_name # "" => tt.name = q.trans_name)

\* set(s.split())
WordSet(s) == {SplitWs(s)[i] : i \in 1..Len(SplitWs(s))}

\* lines 693-708: the test a rule passes to be a match in access-vector mode
AvRuleMatches(q, rule) ==
    LET av == AvMatch(rule)
        t_class == SplitOn(av.target_class, ":")
    IN  /\ av.ok
        /\ av.source = q.source
        /\ t_class[1] = q.target
        /\ (q.obj_class # "" => Len(t_class) > 1 /\ t_class[2] = q.obj_class)
        /\ WordSet(q.third) \subseteq WordSet(av.perms_str)

\* lines 678-711: the test of the mode asked for
RuleMatches(q, rule) ==
    IF q.transition THEN TtRuleMatches(q, rule) ELSE AvRuleMatches(q, rule)

\* a for a in winning_args if a
NonEmpty(arglist) ==
    ConcatAll([i \in 1..Len(arglist) |-> IF arglist[i] # "" THEN <<arglist[i]>> ELSE <<>>])

\* lines 709-710: the reported signature
CallSig(m, winning_args) == m \o "(" \o Join(NonEmpty(winning_args), ", ") \o ")"

Targets == {"B", "r", "file", "log_t", "self", "tmp_t"}

Requests == {"read", "write", "read open", "search"}

\* the queries of the access-vector mode
AvQueries ==
    [source : {"A"}, target : Targets, third : Requests,
     obj_class : {"", "file", "dir"}, transition : {FALSE}, trans_name : {""}]

\* the queries of the transition mode: parent in target, new type in third
TtQueries ==
    [source : {"A"}, target : {"tmp_t", "run_t"}, third : {"B", "new_t"},
     obj_class : {"", "dir"}, transition : {TRUE}, trans_name : {"", "pid"}]

InitWhich ==
    /\ index \in {GrantPolicy, RefPolicy, WhichPolicy}
    /\ query \in AvQueries \cup TtQueries
    /\ cands = <<>> /\ matches = {} /\ trials = <<>>
    /\ pc = "which"
    /\ name = "" /\ args = <<>> /\ max_depth = 0
    /\ stack = <<>> /\ tree = NoTree
    /\ rules = <<>> /\ merged = <<>>
    /\ NoText

\* lines 637-645
WhichCandidates ==
    /\ pc = "which"
    /\ cands' = Candidates(index, query)
    /\ pc' = "trials"
    /\ UNCHANGED <<index, name, args, max_depth, stack, tree, rules, merged,
                   text, result, query, matches, trials>>

\* lines 649-665: the next candidate, its arity and its trial argument lists
WhichTrial ==
    /\ pc = "trials"
    /\ cands # <<>>
    /\ name' = Head(cands)
    /\ cands' = Tail(cands)
    /\ trials' = TrialSets(query, _macro_arity(index[Head(cands)].body))
    /\ args' = <<>>
    /\ rules' = <<>>
    /\ pc' = "trial"
    /\ UNCHANGED <<index, max_depth, stack, tree, merged, text, result, query, matches>>

\* lines 666-668: the next trial argument list is expanded
WhichExpand ==
    /\ pc = "trial"
    /\ trials # <<>>
    /\ tree' = expand_macro(index, name, Head(trials), 0, WhichTrialDepth)
    /\ pc' = "collect"
    /\ UNCHANGED <<index, name, args, max_depth, stack, rules, merged,
                   text, result, query, cands, matches, trials>>

\* lines 671-674: the rules of the trial; the first trial with any rule is the
\* winning one and ends the loop
WhichCollect ==
    /\ pc = "collect"
    /\ rules' = collect_leaf_rules(tree)
    /\ IF rules' # <<>>
       THEN args' = Head(trials) /\ trials' = <<>> /\ pc' = "match"
       ELSE args' = args /\ trials' = Tail(trials) /\ pc' = "trial"
    /\ UNCHANGED <<index, name, max_depth, stack, tree, merged,
                   text, result, query, cands, matches>>

\* lines 675-676: a candidate none of whose trials gives a rule is passed over
WhichNoRules ==
    /\ pc = "trial"
    /\ trials = <<>>
    /\ pc' = "trials"
    /\ UNCHANGED <<index, name, args, max_depth, stack, tree, rules, merged,
                   text, result, query, cands, matches, trials>>

\* lines 680-711: a candidate with a matching rule is reported with its signature
WhichMatch ==
    /\ pc = "match"
    /\ \E i \in 1..Len(rules) : RuleMatches(query, rules[i])
    /\ matches' = matches \cup {[name |-> name, call_sig |-> CallSig(name, args)]}
    /\ pc' = "trials"
    /\ UNCHANGED <<index, name, args, max_depth, stack, tree, rules, merged,
                   text, result, query, cands, trials>>

\* lines 680-711: a candidate with rules, none of them matching
WhichNoMatch ==
    /\ pc = "match"
    /\ rules # <<>>
    /\ \A i \in 1..Len(rules) : ~RuleMatches(query, rules[i])
    /\ pc' = "trials"
    /\ UNCHANGED <<index, name, args, max_depth, stack, tree, rules, merged,
                   text, result, query, cands, matches, trials>>

\* lines 713-720: nothing found, exit status 1
WhichNone ==
    /\ pc = "trials" /\ cands = <<>> /\ matches = {}
    /\ pc' = "none"
    /\ UNCHANGED <<index, name, args, max_depth, stack, tree, rules, merged,
                   text, result, query, cands, matches, trials>>

\* lines 722-731: the matches are printed, exit status 0
WhichReport ==
    /\ pc = "trials" /\ cands = <<>> /\ matches # {}
    /\ pc' = "reported"
    /\ UNCHANGED <<index, name, args, max_depth, stack, tree, rules, merged,
                   text, result, query, cands, matches, trials>>

NextWhich ==
    \/ WhichCandidates
    \/ WhichTrial
    \/ WhichExpand
    \/ WhichCollect
    \/ WhichNoRules
    \/ WhichMatch
    \/ WhichNoMatch
    \/ WhichNone
    \/ WhichReport

SpecWhich == InitWhich /\ [][NextWhich]_vars

-----------------------------------------------------------------------------
(* _flatten_braces and substitute_args on texts written from pieces *)

\* the texts written from at most n pieces
Written(pieces, n) == {Join(w, "") : w \in UNION {[1..k -> pieces] : k \in 0..n}}

\* braces opened and not yet closed before offset i
BraceDepth(s, i) ==
    Cardinality({k \in 0..(i - 1) : Ch(s, k) = "{"})
        - Cardinality({k \in 0..(i - 1) : Ch(s, k) = "}"})

\* every brace of the line has its partner
Balanced(s) ==
    /\ \A i \in 0..Len(s) : BraceDepth(s, i) >= 0
    /\ BraceDepth(s, Len(s)) = 0

MaxPieces == 6

\* a leaf line with balanced brace sets
InitFlatten ==
    /\ text \in {l \in Written({"{", "}", "a", " "}, MaxPieces) : Balanced(l)}
    /\ result = ""
    /\ pc = "flatten"
    /\ index = GrantPolicy
    /\ name = "" /\ args = <<>> /\ max_depth = 0
    /\ stack = <<>> /\ tree = NoTree
    /\ rules = <<>> /\ merged = <<>>
    /\ NoWhich

\* _flatten_braces(text) (line 276)
Flatten ==
    /\ pc = "flatten"
    /\ result' = _flatten_braces(text)
    /\ pc' = "flattened"
    /\ UNCHANGED <<index, name, args, max_depth, stack, tree, rules, merged,
                   text, query, cands, matches, trials>>

SpecFlatten == InitFlatten /\ [][Flatten]_vars

MaxTokens == 4

\* argument lists, some of them holding placeholder characters
SubstArgs == {<<"A">>, <<"A", "B">>, <<"$*", "b">>, <<"$">>, <<"", "B">>, <<"$2", "B">>}

\* a macro body and the arguments of a call of it
InitSubst ==
    /\ text \in Written({"$", "0", "1", "2", "*", "x"}, MaxTokens)
    /\ args \in SubstArgs
    /\ result = ""
    /\ pc = "substitute"
    /\ index = GrantPolicy
    /\ name = "" /\ max_depth = 0
    /\ stack = <<>> /\ tree = NoTree
    /\ rules = <<>> /\ merged = <<>>
    /\ NoWhich

\* substitute_args(macro.body, args) (line 299)
Substitute ==
    /\ pc = "substitute"
    /\ result' = substitute_args(text, args)
    /\ pc' = "substituted"
    /\ UNCHANGED <<index, name, args, max_depth, stack, tree, rules, merged,
                   text, query, cands, matches, trials>>

SpecSubst == InitSubst /\ [][Substitute]_vars

-----------------------------------------------------------------------------
(* parse_file on file texts written from pieces *)

MacroKinds == <<"interface", "template", "define">>

NoStart == [ok |-> FALSE, kind |-> "", name |-> "", end |-> -1]

\* _MACRO_START matched at offset p for the kind k:
\* ^k\(\s*`([^']+)'\s*,\s*`  with ^ at the start of a line (re.MULTILINE)
MacroStartOf(s, p, k) ==
    LET a == SpaceEnd(s, p + Len(k) + 1)
        b == Find(s, "'", a + 1)
        c == SpaceEnd(s, b + 1)
        d == SpaceEnd(s, c + 1)
    IN  IF /\ (p = 0 \/ Ch(s, p - 1) = "\n")
           /\ StartsAt(s, k \o "(", p)
           /\ Ch(s, a) = Backtick
           /\ b # -1 /\ b > a + 1
           /\ Ch(s, c) = ","
           /\ Ch(s, d) = Backtick
        THEN [ok |-> TRUE, kind |-> k, name |-> Slice(s, a + 1, b), end |-> d + 1]
        ELSE NoStart

\* _MACRO_START matched at offset p
MacroStartAt(s, p) ==
    IF \E i \in 1..Len(MacroKinds) : MacroStartOf(s, p, MacroKinds[i]).ok
    THEN MacroStartOf(s, p, MacroKinds[CHOOSE i \in 1..Len(MacroKinds) :
                                           MacroStartOf(s, p, MacroKinds[i]).ok])
    ELSE NoStart

\* the scan as it would be without the depth counter: the first apostrophe
FirstApostrophe(s, i, depth) == Find(s, "'", i)

RECURSIVE BlockEndFrom(_, _, _)
\* the loop of _find_m4_block_end at offset i with the counter at depth; the
\* characters that are no quotes only move i on, so they are passed in one step
BlockEndFrom(s, i, depth) ==
    LET k == First(i, Len(s) - 1, LAMBDA j : Ch(s, j) = Backtick \/ Ch(s, j) = "'")
    IN  IF k = -1 THEN -1
        ELSE IF Ch(s, k) = Backtick THEN BlockEndFrom(s, k + 1, depth + 1)
        ELSE IF depth - 1 = 0 THEN k
        ELSE BlockEndFrom(s, k + 1, depth - 1)

_find_m4_block_end(s, start) == BlockEndFrom(s, start, 1)

\* lines 97-100: one leading and one trailing newline taken off
TrimBody(body) ==
    LET b1 == IF StartsWith(body, "\n") THEN From(body, 1) ELSE body
    IN  IF EndsWith(b1, "\n") THEN Slice(b1, 0, Len(b1) - 1) ELSE b1

\* text[:p].count("\n") + 1
LineNumber(s, p) == Cardinality({k \in 0..(p - 1) : Ch(s, k) = "\n"}) + 1

\* lines 87-109: the definitions the match at offset p adds to results
ParsedAt(s, p) ==
    LET m == MacroStartAt(s, p)
        body_end == _find_m4_block_end(s, m.end)
    IN  IF body_end = -1 THEN <<>>
        ELSE <<[name |-> m.name, kind |-> m.kind,
                body |-> TrimBody(Slice(s, m.end, body_end)),
                line_number |-> LineNumber(s, p)]>>

RECURSIVE ParseFrom(_, _)
\* for m in _MACRO_START.finditer(text), scanning from offset i
ParseFrom(s, i) ==
    LET p == First(i, Len(s) - 1, LAMBDA k : MacroStartAt(s, k).ok)
    IN  IF p = -1 THEN <<>>
        ELSE ParsedAt(s, p) \o ParseFrom(s, MacroStartAt(s, p).end)

\* parse_file, from the text read
parse_file(s) == ParseFrom(s, 0)

\* what a policy file is written from: two headers, quotes, a line, newlines
FooHeader == "interface(`foo'," \o Backtick

BarHeader == "define( `bar' , " \o Backtick

FilePieces == {FooHeader, BarHeader, Backtick, "'", "\n", "x;"}

MaxFilePieces == 5

InitParse ==
    /\ text \in Written(FilePieces, MaxFilePieces)
    /\ result = <<>>
    /\ pc = "parse"
    /\ index = GrantPolicy
    /\ name = "" /\ args = <<>> /\ max_depth = 0
    /\ stack = <<>> /\ tree = NoTree
    /\ rules = <<>> /\ merged = <<>>
    /\ NoWhich

\* parse_file(full, rel) (line 150)
Parse ==
    /\ pc = "parse"
    /\ result' = parse_file(text)
    /\ pc' = "parsed"
    /\ UNCHANGED <<index, name, args, max_depth, stack, tree, rules, merged,
                   text, query, cands, matches, trials>>

SpecParse == InitParse /\ [][Parse]_vars

-----------------------------------------------------------------------------
(* _resolve_defines_in_text on leaf lines written from words *)

\* permission-set defines, a chain of six defines, a define with a parameter
\* and an interface
DefinePolicy ==
    ("rd" :> MacroDef("define", "{ read }")) @@
    ("d1" :> MacroDef("define", "d2")) @@
    ("d2" :> MacroDef("define", " d3 ")) @@
    ("d3" :> MacroDef("define", "d4")) @@
    ("d4" :> MacroDef("define", "d5")) @@
    ("d5" :> MacroDef("define", "d6")) @@
    ("d6" :> MacroDef("define", "{ write }")) @@
    ("gr" :> MacroDef("define", "allow $1")) @@
    ("intf" :> MacroDef("interface", "rd"))

\* the words a leaf line is written from
LineWords == {"rd", "d1", "d3", "gr", "intf"}

MaxWords == 6

\* the lines of at most MaxWords words
Lines == {Join(ws, " ") : ws \in UNION {[1..n -> LineWords] : n \in 0..MaxWords}}

InitResolve ==
    /\ text \in Lines
    /\ result = ""
    /\ pc = "resolve"
    /\ index = DefinePolicy
    /\ name = "" /\ args = <<>> /\ max_depth = 0
    /\ stack = <<>> /\ tree = NoTree
    /\ rules = <<>> /\ merged = <<>>
    /\ NoWhich

\* _resolve_defines_in_text(line, index) (lines 309, 321)
Resolve ==
    /\ pc = "resolve"
    /\ result' = _resolve_defines_in_text(text, index)
    /\ pc' = "resolved"
    /\ UNCHANGED <<index, name, args, max_depth, stack, tree, rules, merged,
                   text, query, cands, matches, trials>>

SpecResolve == InitResolve /\ [][Resolve]_vars

-----------------------------------------------------------------------------
(* Trees *)

RECURSIVE Nodes(_)
\* every node of a tree, the root first
Nodes(n) == <<n>> \o ConcatAll([i \in 1..Len(n.children) |-> Nodes(n.children[i])])

NodeSet(n) == {Nodes(n)[i] : i \in 1..Len(Nodes(n))}

\* the largest member of a non-empty set of numbers
Max(S) == CHOOSE m \in S : \A x \in S : x <= m

RECURSIVE TreeDepth(_)
\* the number of edges on the longest path from the root down
TreeDepth(n) ==
    IF n.children = <<>> THEN 0
    ELSE 1 + Max({TreeDepth(n.children[i]) : i \in 1..Len(n.children)})

RECURSIVE AtLevel(_, _)
\* the nodes k edges below n
AtLevel(n, k) ==
    IF k = 0 THEN {n}
    ELSE UNION {AtLevel(n.children[i], k - 1) : i \in 1..Len(n.children)}

-----------------------------------------------------------------------------
(* C1 *)

\* C1: expand_macro started at depth 0 returns, whatever the index (cyclic ones
\* included), the name, the arguments and max_depth >= 0: the call never ends in
\* RecursionError, and in the tree it returns every call that was still open one
\* level past max_depth holds the sentinel leaf and nothing else
C1_TerminatesWithSentinel ==
    /\ pc # "raised"
    /\ pc = "expanded" =>
           \A n \in AtLevel(tree, max_depth + 1) :
               ~n.is_leaf => n.children = <<Sentinel>>

\* a cyclic call has returned, cut by the sentinel
C1_Witness ==
    /\ pc = "expanded"
    /\ index = CyclicPolicy
    /\ name = "a"
    /\ \E n \in AtLevel(tree, max_depth + 1) : n.children = <<Sentinel>>

-----------------------------------------------------------------------------
(* C2 *)

-----------------------------------------------------------------------------
(* C3 *)

\* the macro name a call node's text starts with
NodeName(t) == IF Contains(t, "(") THEN Slice(t, 0, Find(t, "(", 0)) ELSE t

\* every line is blank or a comment
OnlyBlankOrComment(body) ==
    \A i \in 1..Len(SplitLines(body)) :
        LET line == Strip(SplitLines(body)[i])
        IN  line = "" \/ StartsWith(line, "#")

\* C3 as stated: every node of the returned tree is a leaf without children or
\* a non-leaf with at least one child
C3_LeafOrHasChildren ==
    pc = "expanded" =>
        \A n \in NodeSet(tree) :
            \/ n.is_leaf /\ n.children = <<>>
            \/ ~n.is_leaf /\ n.children # <<>>

\* C3, amended: every leaf has no children, and every non-leaf has at least one
\* child unless it is the node of a call of an indexed macro whose body, after
\* substitution and the removal of gen_require blocks, has only blank lines and
\* comments (an empty body included)
C3_LeafOrHasChildrenUnlessBlank ==
    /\ \A i \in 1..Len(stack) :
           stack[i].at = "return" /\ ~stack[i].node.is_leaf /\ stack[i].node.children = <<>>
               => /\ stack[i].name \in DOMAIN index
                  /\ OnlyBlankOrComment(ExpandedBody(index, stack[i].name, stack[i].args))
    /\ pc = "expanded" =>
           \A n \in NodeSet(tree) :
               /\ n.is_leaf => n.children = <<>>
               /\ ~n.is_leaf /\ n.children = <<>> => NodeName(n.text) \in DOMAIN index

\* a macro whose body is empty, only comments or only a gen_require block has
\* returned: a non-leaf without children
C3_Witness ==
    /\ pc = "expanded"
    /\ \/ name = "require_only" /\ ~tree.is_leaf /\ tree.children = <<>>
       \/ name = "comment_only" /\ ~tree.is_leaf /\ tree.children = <<>>
       \/ name = "empty" /\ ~tree.is_leaf /\ tree.children = <<>>

-----------------------------------------------------------------------------
(* C4 *)

\* the leaves of a tree
Leaves(n) == {m \in NodeSet(n) : m.is_leaf}

\* C4: no leaf of the returned tree and no collected rule holds a gen_require
\* block or a part of one: neither its opening nor its closing
C4_NoGenRequireInLeaves ==
    /\ pc = "expanded" =>
           \A n \in Leaves(tree) :
               ~Contains(n.text, "gen_require(") /\ Strip(n.text) # "')"
    /\ pc = "collected" =>
           \A i \in 1..Len(rules) :
               ~Contains(rules[i], "gen_require(") /\ Strip(rules[i]) # "')"

\* a gen_require block without inner quotes is removed whole
C4_Witness ==
    /\ pc = "expanded"
    /\ name = "read_log" /\ args = <<"A">>
    /\ \A n \in Leaves(tree) : ~Contains(n.text, "gen_require(")
    /\ Cardinality(Leaves(tree)) = 3

-----------------------------------------------------------------------------
(* C5 *)

RECURSIVE Ascending(_)
\* the members of a finite set of numbers, least first
Ascending(S) ==
    IF S = {} THEN <<>>
    ELSE LET least == CHOOSE m \in S : \A x \in S : m <= x
         IN  <<least>> \o Ascending(S \ {least})

\* the members of a sequence in the order they are first seen, each once
FirstSeen(xs) ==
    LET firsts == Ascending({i \in 1..Len(xs) : \A j \in 1..(i - 1) : xs[j] # xs[i]})
    IN  [n \in 1..Len(firsts) |-> xs[firsts[n]]]

\* the leaf is an access-vector rule of the group with this key
InGroup(leaf, key) == AvMatch(leaf).ok /\ AvKey(AvMatch(leaf)) = key

\* the permissions of the leaves of a group, in the order the leaves list them
GroupPerms(leaves, key) ==
    ConcatAll([i \in 1..Len(leaves) |->
                  IF InGroup(leaves[i], key) THEN SplitWs(AvMatch(leaves[i]).perms_str)
                  ELSE <<>>])

\* what a leaf is merged by: its group's key, or its own text
Identity(leaf) == IF AvMatch(leaf).ok THEN <<"av", AvKey(AvMatch(leaf))>> ELSE <<"line", leaf>>

\* the output the claim describes for a depth-first leaf sequence: one entry per
\* group and per other line, placed by first member; a group's entry lists the
\* union of its members' permissions in first-seen order
UnionOutput(leaves) ==
    LET ids == FirstSeen([i \in 1..Len(leaves) |-> Identity(leaves[i])])
    IN  [n \in 1..Len(ids) |->
            IF ids[n][1] = "av"
            THEN ids[n][2] \o " { "
                     \o Join(FirstSeen(GroupPerms(leaves, ids[n][2])), " ") \o " };"
            ELSE ids[n][2]]

-----------------------------------------------------------------------------
(* C6 *)

\* the number of times the character c occurs in s
CountOf(s, c) == Cardinality({i \in 0..(Len(s) - 1) : Ch(s, i) = c})

\* begins with allow, dontaudit, auditallow or neverallow
IsAvLine(line) ==
    \E k \in 1..Len(AvKinds) :
        StartsWith(line, AvKinds[k]) /\ IsSpace(Ch(line, Len(AvKinds[k])))

\* "<kind> <source> <target>:<class> { <perms> };" with one brace set
HasAvShape(line) ==
    /\ AvMatch(line).ok
    /\ CountOf(line, "{") = 1 /\ CountOf(line, "}") = 1
    /\ EndsWith(line, "};")

\* C6: every access-vector line of the expanded-rule output has the shape
\* "<kind> <source> <target>:<class> { <perms> };" with exactly one brace set
C6_AvRulesHaveOneBraceSet ==
    /\ pc \in {"collected", "done"} =>
           \A i \in 1..Len(rules) : IsAvLine(rules[i]) => HasAvShape(rules[i])
    /\ pc = "done" =>
           \A i \in 1..Len(merged) : IsAvLine(merged[i]) => HasAvShape(merged[i])

\* rules written with braces come out in the shape
C6_Witness ==
    /\ pc = "done"
    /\ Len(rules) >= 2
    /\ \A i \in 1..Len(rules) : IsAvLine(rules[i]) /\ HasAvShape(rules[i])

-----------------------------------------------------------------------------
(* C7 *)

\* C7: canonicalising the list collect_leaf_rules returned gives the same list
C7_CanonicalisationIdempotent ==
    pc = "done" => merged = rules

\* a list of several rules, one of them merged from several leaves, canonicalised again
C7_Witness ==
    /\ pc = "done"
    /\ Len(rules) >= 2
    /\ Len(Walk(tree)) > Len(rules)
    /\ merged = rules

-----------------------------------------------------------------------------
(* C8 *)

\* cmd_which has returned
WhichDone == pc \in {"none", "reported"}

\* C8: with the one-macro index grant_read = "allow $1 $2:file { read open
\* getattr };" cmd_which reports exactly grant_read(S, T), whatever the source S
\* and the target T, when the requested permissions are among read, open and
\* getattr, and reports nothing when they are not
C8_ReportsGrantRead ==
    WhichDone /\ index = GrantPolicy /\ ~query.transition /\ query.obj_class = "" =>
        IF WordSet(query.third) \subseteq {"read", "open", "getattr"}
        THEN matches = {[name |-> "grant_read",
                         call_sig |-> "grant_read(" \o query.source \o ", "
                                          \o query.target \o ")"]}
        ELSE matches = {}

\* a target that occurs in the macro's text: the macro is tried and reported
C8_Witness ==
    /\ pc = "reported"
    /\ index = GrantPolicy
    /\ ~query.transition
    /\ query.target = "file" /\ query.third = "read open"
    /\ matches = {[name |-> "grant_read", call_sig |-> "grant_read(A, file)"]}

-----------------------------------------------------------------------------
(* C9 *)

\* a brace set inside another brace set
HasNestedBraces(s) == \E i \in 0..Len(s) : BraceDepth(s, i) >= 2

\* two or more whitespace characters in a row
HasSpaceRun(s) == \E i \in 0..(Len(s) - 2) : IsSpace(Ch(s, i)) /\ IsSpace(Ch(s, i + 1))

\* C9: the output of _flatten_braces holds no brace set nested in another and
\* no run of two or more whitespace characters
C9_FlatAndSqueezed ==
    pc = "flattened" => ~HasNestedBraces(result) /\ ~HasSpaceRun(result)

\* a set nested in a set, flattened, and the spaces of the rewrite squeezed
C9_Witness ==
    /\ pc = "flattened"
    /\ text = "{{a}}"
    /\ result = "{ a }"

-----------------------------------------------------------------------------
(* C10 *)

RECURSIVE Positional(_, _)
\* the body with every $K replaced as the claim says: $0 kept, $K by the K-th
\* argument for 1 <= K <= Len(arglist), and by nothing for larger K
Positional(body, arglist) ==
    IF body = "" THEN ""
    ELSE IF PositionalAt(body, 0) # -1
    THEN LET K == ToInt(Slice(body, 1, PositionalAt(body, 0)))
         IN  (IF K = 0 THEN Slice(body, 0, PositionalAt(body, 0))
              ELSE IF K <= Len(arglist) THEN arglist[K]
              ELSE "")
                 \o Positional(From(body, PositionalAt(body, 0)), arglist)
    ELSE Ch(body, 0) \o Positional(From(body, 1), arglist)

\* C10: in a body without the token $*, substitute_args keeps every $0,
\* replaces every $K with 1 <= K <= len(args) by args[K-1] and every $K with
\* K > len(args) by the empty string, and changes nothing else
C10_PositionalSubstitution ==
    pc = "substituted" /\ ~Contains(text, "$*") => result = Positional(text, args)

\* $0 kept and $1 replaced
C10_Witness ==
    /\ pc = "substituted"
    /\ text = "$0$1" /\ args = <<"A">>
    /\ result = "$0A"

-----------------------------------------------------------------------------
(* C11 *)

RECURSIVE StarOnly(_, _)
\* s read left to right, every token $* replaced by joined
StarOnly(s, joined) ==
    IF s = "" THEN ""
    ELSE IF StartsWith(s, "$*") THEN joined \o StarOnly(From(s, 2), joined)
    ELSE Ch(s, 0) \o StarOnly(From(s, 1), joined)

RECURSIVE Joined(_, _)
\* the elements of arglist, sep between each two
Joined(arglist, sep) ==
    IF arglist = <<>> THEN ""
    ELSE IF Len(arglist) = 1 THEN arglist[1]
    ELSE arglist[1] \o sep \o Joined(Tail(arglist), sep)

\* C11 as stated: every $* left by the positional pass is replaced by the
\* arguments joined by a comma followed by one space
C11_StarJoinedByCommaSpace ==
    pc = "substituted" =>
        result = StarOnly(Positional(text, args), Joined(args, ", "))

\* C11: every $* left by the positional pass (every $* of the body among them)
\* is replaced by the arguments joined by a single comma, no space
C11_StarJoinedByComma ==
    pc = "substituted" =>
        result = StarOnly(Positional(text, args), Joined(args, ","))

\* "$*" with two arguments
C11_Witness ==
    /\ pc = "substituted"
    /\ text = "x$*" /\ args = <<"A", "B">>
    /\ result = "xA,B"

-----------------------------------------------------------------------------
(* C16 *)

RECURSIVE SinglePass(_, _)
\* the body read once, left to right: $K and $* replaced by their values, and
\* the values never read again
SinglePass(body, arglist) ==
    IF body = "" THEN ""
    ELSE IF PositionalAt(body, 0) # -1
    THEN _replacer(Slice(body, 1, PositionalAt(body, 0)), arglist)
             \o SinglePass(From(body, PositionalAt(body, 0)), arglist)
    ELSE IF StartsWith(body, "$*")
    THEN Joined(arglist, ",") \o SinglePass(From(body, 2), arglist)
    ELSE Ch(body, 0) \o SinglePass(From(body, 1), arglist)

\* C16: substitution is one pass over the body; text that entered the result as
\* the value of an argument is not substituted again
C16_SinglePass == pc = "substituted" => result = SinglePass(text, args)

\* an argument holding $2 is left as it is by the positional pass
C16_Witness ==
    /\ pc = "substituted"
    /\ text = "$1x" /\ args = <<"$2", "B">>
    /\ result = "$2x"


-----------------------------------------------------------------------------
(* C12 *)

\* the candidate tried last has been reported
Reported == \E m \in matches : m.name = name

\* an allow rule with the source, target, class and permissions asked for
GrantsRequest(q, rule) ==
    /\ StartsWith(rule, "allow") /\ IsSpace(Ch(rule, 5))
    /\ AvRuleMatches(q, rule)

\* C12: in access-vector mode a macro is reported only if the rules of its
\* trial hold an allow rule with the requested source and target, the class
\* of the filter when one is given, and all the requested permissions
C12_ReportedOnlyForAllow ==
    pc = "trials" /\ ~query.transition /\ Reported =>
        \E i \in 1..Len(rules) : GrantsRequest(query, rules[i])

\* a macro reported for an allow rule
C12_Witness ==
    /\ pc = "trials" /\ ~query.transition /\ Reported
    /\ index = WhichPolicy /\ name = "grant4"
    /\ rules = <<"allow A file:file { read };">>

-----------------------------------------------------------------------------
(* C17 *)

\* some trial of the candidate m gives a rule that matches the query
SomeTrialMatches(idx, m, q) ==
    LET trial_sets == TrialSets(q, _macro_arity(idx[m].body))
    IN  \E k \in 1..Len(trial_sets) :
            LET found == collect_leaf_rules(
                             expand_macro(idx, m, trial_sets[k], 0, WhichTrialDepth))
            IN  \E i \in 1..Len(found) : RuleMatches(q, found[i])

\* C17: in transition mode a candidate is reported whenever one of its trial
\* argument lists expands to a type_transition rule with the source, parent
\* and new type asked for (and the class and filename of the filters), also
\* when an earlier trial gave rules none of which match
C17_ReportedWhenSomeTrialMatches ==
    pc = "trials" /\ query.transition /\ name # "" /\ SomeTrialMatches(index, name, query)
        => Reported

\* a candidate whose first trial gives the rule asked for
C17_Witness ==
    /\ pc = "trials" /\ query.transition
    /\ index = WhichPolicy /\ name = "pid_filetrans"
    /\ query.target = "run_t" /\ query.third = "B"
    /\ rules = <<"type_transition A run_t:file B;">>
    /\ [name |-> "pid_filetrans", call_sig |-> "pid_filetrans(A, B, file)"] \in matches

-----------------------------------------------------------------------------
(* C18 *)

\* source, target, third cut or padded with empty strings to length k
CutOrPad(q, k) ==
    [i \in 1..k |-> IF i = 1 THEN q.source
                    ELSE IF i = 2 THEN q.target
                    ELSE IF i = 3 THEN q.third
                    ELSE ""]

\* C18: in access-vector mode the one trial argument list of a candidate of
\* arity k has length k: the first k of source, target, third, then empty
\* strings
C18_TrialHasArityLength ==
    pc = "match" /\ ~query.transition =>
        TrialSets(query, _macro_arity(index[name].body))
            = <<CutOrPad(query, _macro_arity(index[name].body))>>

\* a candidate of arity 4: the three values and one empty string
C18_Witness ==
    /\ pc = "match" /\ ~query.transition
    /\ index = WhichPolicy /\ name = "grant4"
    /\ query.target = "file" /\ query.third = "read"
    /\ args = <<"A", "file", "read", "">>


-----------------------------------------------------------------------------
(* C13 *)

\* the offsets of the headers of s, each at the start of a line
Headers(s) == {p \in 0..(Len(s) - 1) : MacroStartAt(s, p).ok}

\* backticks minus apostrophes in s[i..j], over the 1 the body opens with
DepthAfter(s, i, j) ==
    1 + Cardinality({k \in i..j : Ch(s, k) = Backtick})
      - Cardinality({k \in i..j : Ch(s, k) = "'"})

\* the apostrophe that brings the depth to 0 for the body opened before i, or -1
Closing(s, i) == First(i, Len(s) - 1, LAMBDA j : DepthAfter(s, i, j) = 0)

\* the headers whose body closes
Closed(s) == {p \in Headers(s) : Closing(s, MacroStartAt(s, p).end) # -1}

\* b without one leading and one trailing newline
Trimmed(b) ==
    LET lead == IF Len(b) >= 1 /\ Ch(b, 0) = "\n" THEN 1 ELSE 0
        trail == IF Len(b) - lead >= 1 /\ Ch(b, Len(b) - 1) = "\n" THEN 1 ELSE 0
    IN  Slice(b, lead, Len(b) - trail)

\* the definition of the header at offset p
DefinitionOf(s, p) ==
    LET m == MacroStartAt(s, p)
    IN  [name |-> m.name, kind |-> m.kind,
         body |-> Trimmed(Slice(s, m.end, Closing(s, m.end))),
         line_number |-> LineNumber(s, p)]

\* C13: parse_file yields one definition for each header at the start of a
\* line whose body closes, in the order of the headers, its body the text
\* between the opening backtick and the closing apostrophe less one leading
\* and one trailing newline; a header whose body never closes yields nothing
\* and takes nothing from the others
C13_OneDefinitionPerClosedHeader ==
    pc = "parsed" =>
        LET ps == Ascending(Closed(text))
        IN  result = [i \in 1..Len(ps) |-> DefinitionOf(text, ps[i])]

\* a header left open, then a definition whose body holds a quoted block
C13_Witness ==
    /\ pc = "parsed"
    /\ text = FooHeader \o "\n" \o BarHeader \o "\n'"
    /\ result = <<[name |-> "bar", kind |-> "define", body |-> "", line_number |-> 2]>>


-----------------------------------------------------------------------------
(* C14 *)

\* the call string name(arg1, arg2, ...)
Canonical(n, arglist) == n \o "(" \o Joined(arglist, ", ") \o ")"

\* an opaque leaf
Opaque(t) == [text |-> t, children |-> <<>>, is_leaf |-> TRUE]

\* the child added for the nested call c of the running frame f, the call
\* before position f.k
LastChild(f) == f.node.children[Len(f.node.children)]

\* the running frame f has just met a call of a name not in the index: it is
\* the call before position f.k, and no later call has been looked at yet
MetUnresolved(f) ==
    f.at = "loop" /\ f.k > 1 /\ f.calls[f.k - 1].name \notin DOMAIN index

\* every nested call of a name not in the index is an opaque leaf named by its
\* call string, and no expansion of a name not in the index ends in an error
NestedUnresolvedOpaque ==
    /\ name \notin DOMAIN index => pc # "raised"
    /\ pc = "expand" /\ stack # <<>> /\ MetUnresolved(Top) =>
           LastChild(Top) = Opaque(Canonical(Top.calls[Top.k - 1].name,
                                             Top.calls[Top.k - 1].args))

\* C14 as stated: the root node of a name not in the index is an opaque leaf
\* whose text is name(arg1, arg2, ...), and so is every nested one
C14_UnresolvedIsCallString ==
    /\ NestedUnresolvedOpaque
    /\ pc = "expanded" /\ name \notin DOMAIN index => tree = Opaque(Canonical(name, args))

\* C14: a nested call of a name not in the index is an opaque leaf with the
\* text name(arg1, arg2, ...), parentheses always written; the root node of
\* such a name is an opaque leaf with the same text when there are arguments
\* and with the bare name when there are none
C14_UnresolvedIsCallStringOrName ==
    /\ NestedUnresolvedOpaque
    /\ pc = "expanded" /\ name \notin DOMAIN index =>
           tree = Opaque(IF args = <<>> THEN name ELSE Canonical(name, args))

\* a root name not in the index, called with two arguments
C14_Witness ==
    /\ pc = "expanded" /\ name = "nope" /\ args = <<"A", "B">>
    /\ tree = Opaque("nope(A, B)")

\* a nested call without arguments of a name not in the index has become a leaf
C14_NestedWitness ==
    /\ pc = "expand" /\ stack # <<>>
    /\ MetUnresolved(Top)
    /\ LastChild(Top) = Opaque("gone()")


-----------------------------------------------------------------------------
(* C15 *)

\* name(args) occurs in body at offset p: a whole word, an opening
\* parenthesis, text free of parentheses, a closing parenthesis
OccursAt(body, p) ==
    /\ IsWord(Ch(body, p)) /\ ~IsWord(Ch(body, p - 1))
    /\ Ch(body, WordEnd(body, p)) = "("
    /\ \E close \in (WordEnd(body, p) + 1)..(Len(body) - 1) :
           /\ Ch(body, close) = ")"
           /\ \A j \in (WordEnd(body, p) + 1)..(close - 1) :
                  Ch(body, j) # "(" /\ Ch(body, j) # ")"

\* the line of offset p starts, blanks aside, with #
Commented(body, p) ==
    \E h \in 0..(p - 1) :
        /\ Ch(body, h) = "#"
        /\ \A j \in h..(p - 1) : Ch(body, j) # "\n"
        /\ \A j \in 0..(h - 1) :
               (\A i \in j..(h - 1) : Ch(body, i) # "\n") => IsSpace(Ch(body, j))

\* the offsets of the calls the body holds: the occurrences with a name that
\* is no keyword, on a line that is no comment
CallOffsets(body) ==
    {p \in 0..(Len(body) - 1) :
        /\ OccursAt(body, p)
        /\ Slice(body, p, WordEnd(body, p)) \notin skip_names
        /\ ~Commented(body, p)}

\* the entry of the call at offset p
EntryAt(body, p) ==
    LET open == WordEnd(body, p)
        close == Find(body, ")", open)
        inner == Slice(body, open + 1, close)
    IN  [name |-> Slice(body, p, open),
         args |-> IF Strip(inner) = "" THEN <<>> ELSE Map(Strip, SplitOn(inner, ",")),
         start |-> p, end |-> close + 1]

\* C15: the calls found in a body are, in source order, the occurrences of
\* name(args) with a name outside the keyword set on a line that is no
\* comment, those inside the quoted block of optional_policy, tunable_policy
\* or ifdef among them
C15_EveryCallFound ==
    \A d \in 1..Len(stack) :
        stack[d].at \in {"body", "loop"} =>
            LET ps == Ascending(CallOffsets(stack[d].body))
            IN  stack[d].calls = [i \in 1..Len(ps) |-> EntryAt(stack[d].body, ps[i])]

\* a body with three calls to names not in the index, found in source order
C15_Witness ==
    /\ pc = "expand" /\ stack # <<>>
    /\ Top.name = "orphan" /\ Top.at = "body"
    /\ Len(Top.calls) = 3
    /\ Top.calls[1].name = "gone" /\ Top.calls[3].args = <<"a", "", "b">>


-----------------------------------------------------------------------------
(* C19 *)

\* the whole words of s: the maximal runs of word characters
WholeWords(s) ==
    {Slice(s, p, WordEnd(s, p)) :
        p \in {k \in 0..(Len(s) - 1) : IsWord(Ch(s, k)) /\ ~IsWord(Ch(s, k - 1))}}

\* how many times the whole word w stands in s
WordCount(s, w) ==
    Cardinality({k \in 0..(Len(s) - 1) :
        /\ IsWord(Ch(s, k)) /\ ~IsWord(Ch(s, k - 1))
        /\ Slice(s, k, WordEnd(s, k)) = w})

\* the names of the defines of idx without a $ in the body
SimpleDefines(idx) ==
    {w \in DOMAIN idx : idx[w].kind = "define" /\ ~Contains(idx[w].body, "$")}

\* C19: the line returned holds no whole word that names a define without $,
\* however many defines the line mentions and however long their chain is,
\* and the words naming interfaces, templates and defines with $ stay
C19_DefinesResolvedToFixpoint ==
    pc = "resolved" =>
        /\ WholeWords(result) \cap SimpleDefines(index) = {}
        /\ \A w \in DOMAIN index \ SimpleDefines(index) :
               WordCount(result, w) = WordCount(text, w)

\* a line with two permission-set defines around an interface name
C19_Witness ==
    /\ pc = "resolved"
    /\ text = "rd intf d3 gr"
    /\ result = "{ read } intf { write } gr"


-----------------------------------------------------------------------------
(* C20 *)

\* the offsets in s[lo:hi] where a line begins
LineStarts(s, lo, hi) == {p \in lo..(hi - 1) : p = lo \/ Ch(s, p - 1) = "\n"}

\* the line of s[lo:hi] that begins at p, without its newline
LineFrom(s, p, hi) ==
    LET nl == Find(s, "\n", p)
    IN  Slice(s, p, IF nl # -1 /\ nl < hi THEN nl ELSE hi)

\* the leaf lines admitted from the segment s[lo:hi], each with its offset
SegmentItems(s, lo, hi, idx) ==
    {[off |-> p, text |-> AdmittedLeaf(LineFrom(s, p, hi), idx)[1].text] :
        p \in {q \in LineStarts(s, lo, hi) : AdmittedLeaf(LineFrom(s, q, hi), idx) # <<>>}}

\* the text of the child of the call c
ChildText(c, idx) ==
    IF c.name \in DOMAIN idx /\ c.args = <<>> THEN c.name ELSE Canonical(c.name, c.args)

\* the calls of the body and the leaf lines of the text between them, each
\* with the offset it stands at
BodyItems(body, calls, idx) ==
    {[off |-> calls[k].start, text |-> ChildText(calls[k], idx)] : k \in 1..Len(calls)}
        \cup UNION {SegmentItems(body,
                                 IF k = 0 THEN 0 ELSE calls[k].end,
                                 IF k = Len(calls) THEN Len(body) ELSE calls[k + 1].start,
                                 idx) : k \in 0..Len(calls)}

\* the texts of the items in the order of their offsets
InBodyOrder(items) ==
    LET offs == Ascending({it.off : it \in items})
    IN  [i \in 1..Len(offs) |-> (CHOOSE it \in items : it.off = offs[i]).text]

\* a frame of a resolved macro with calls, about to return its node
ReturnsInterleaved(f) ==
    /\ f.at = "return" /\ f.name \in DOMAIN index
    /\ ~DepthExceeded(f.depth, max_depth)
    /\ f.calls # <<>>

\* C20: the children of the node of a resolved macro stand in the order in
\* which the detected calls and the admitted leaf lines occur in the
\* substituted, gen_require-stripped body
C20_ChildrenInBodyOrder ==
    \A d \in 1..Len(stack) :
        ReturnsInterleaved(stack[d]) =>
            [i \in 1..Len(stack[d].node.children) |-> stack[d].node.children[i].text]
                = InBodyOrder(BodyItems(stack[d].body, stack[d].calls, index))

\* leaves before, between and after the calls of a template
C20_Witness ==
    /\ pc = "expand" /\ stack # <<>> /\ ReturnsInterleaved(Top)
    /\ Top.name = "domain_tmpl" /\ Top.args = <<"A", "B">>
    /\ Len(Top.node.children) = 6
    /\ Top.node.children[1].text = "allow A self:dir { search };"
    /\ Top.node.children[2].text = "read_log(A)"
    /\ Top.node.children[3].text = "missing(A, x)"
    /\ Top.node.children[4].text = "type_transition A tmp_t:file B;"
    /\ Top.node.children[5].text = "grant_read(A, B)"
    /\ Top.node.children[6].text = "allow A B:file { getattr open read write };"

\* two leaves in the text before a call and two in the text after it
C20_SegmentWitness ==
    /\ pc = "expand" /\ stack # <<>> /\ ReturnsInterleaved(Top)
    /\ Top.name = "self_tmpl" /\ Top.args = <<"A">>
    /\ [i \in 1..Len(Top.node.children) |-> Top.node.children[i].text]
           = <<"allow A self:dir { search };", "allow A self:fifo_file { read };",
               "gone(A)",
               "allow A self:dir { read };", "allow A self:fifo_file { write };">>


=============================================================================
